---- MODULE Spec2Model ----
(***************************************************************************)
(* A model of the YM2149 driver of src/src/lib.rs at the granularity of a  *)
(* single pin write.  Every driver operation is straight-line code: it     *)
(* expands to the sequence of calls, pin writes and returns it performs,   *)
(* and the state machine executes that sequence one instruction at a time. *)
(***************************************************************************)
EXTENDS Integers, Sequences, FiniteSets, TLC

VARIABLES
    bdir,                     \* level of the BDIR control line (YM2149.bdir)
    bc1,                      \* level of the BC1 control line (YM2149.bc1)
    pins,                     \* levels of the eight data lines (DataBus.pins)
    master_clock_frequency,   \* YM2149.master_clock_frequency
    todo,                     \* instructions the running operation has still to execute
    stack,                    \* the calls that have been entered and not yet returned
    trace,                    \* what the running (or last) top-level operation has done
    status,                   \* "ok", or "panicked" once the program has aborted
    faulted,                  \* a pin write has returned Err (set_state's Result)
    chip,                     \* the chip on the bus: its address latch and its register array
    locals,                   \* i and direction of main in examples/doremi_pluck.rs
    played                    \* the scale indices main has passed to play_note, the last ones

vars == <<bdir, bc1, pins, master_clock_frequency, todo, stack, trace, status, faulted,
          chip, locals, played>>

----------------------------------------------------------------------------
(* Bounds of the model *)

\* write_register is called with the addresses 0..MaxAddr and with 255
MaxAddr == 17

\* the last MaxPlayed scale indices given to play_note are kept in played
MaxPlayed == 3

----------------------------------------------------------------------------
(* Program constants *)

\* embedded_hal::digital::PinState
Low == 0
High == 1

\* enum Mode, #[repr(u8)]
INACTIVE == 0
READ == 1
WRITE == 2
ADDRESS == 3

Modes == {INACTIVE, READ, WRITE, ADDRESS}

\* enum AudioChannel
AudioChannel_A == 0
AudioChannel_B == 1
AudioChannel_C == 2

AudioChannels == {AudioChannel_A, AudioChannel_B, AudioChannel_C}

\* enum Register, #[repr(u8)] with no explicit discriminant: each variant
\* has the number of variants declared before it
AFreq8bitFinetone == 0
AFreq4bitRoughtone == 1
BFreq8bitFinetone == 2
BFreq4bitRoughtone == 3
CFreq8bitFinetone == 4
CFreq4bitRoughtone == 5
NoiseFreq5bit == 6
IoPortMixerSettings == 7
ALevel == 8
BLevel == 9
CLevel == 10
EFreq8bitFineAdj == 11
EFreq8bitRoughAdj == 12
EShape == 13
DataIoA == 14
DataIoB == 15

\* the variants of Register in the order of their declaration
RegisterVariants ==
    << AFreq8bitFinetone, AFreq4bitRoughtone, BFreq8bitFinetone, BFreq4bitRoughtone,
       CFreq8bitFinetone, CFreq4bitRoughtone, NoiseFreq5bit, IoPortMixerSettings,
       ALevel, BLevel, CLevel, EFreq8bitFineAdj, EFreq8bitRoughAdj, EShape,
       DataIoA, DataIoB >>

\* The largest frequency whose product 16 * frequency still fits in a u32:
\* (2^32 - 1) div 16
U32_MAX_DIV_16 == 268435455

\* 2^16 and 2^8, the moduli of `as u16` and of the bytes of to_le_bytes
U16_MODULUS == 65536
U8_MODULUS == 256

\* enum EnvelopeFrequency (src/src/audio.rs): the variants, in the order declared
Hertz == 0
BeatsPerMinute == 1
Integer == 2

\* enum EnvelopeShape (src/src/audio.rs): the variants, in the order declared
Builtin == 0
InvertedBuiltin == 1
RawEnvelope == 2
CustomU8 == 3

\* enum BuiltinEnvelopeShape, #[repr(u8)]
FadeOut == 9
FadeIn == 13
Tooth == 15
Saw == 12
Triangle == 14

BuiltinEnvelopeShapes == {FadeOut, FadeIn, Tooth, Saw, Triangle}

\* const REFERENCE_PITCH (src/src/audio.rs)
REFERENCE_PITCH == 440

\* enum BaseNote: semitones from A
BaseNote_C == -9
BaseNote_D == -7
BaseNote_E == -5
BaseNote_F == -4
BaseNote_G == -2
BaseNote_A == 0
BaseNote_B == 2

BaseNotes == {BaseNote_C, BaseNote_D, BaseNote_E, BaseNote_F, BaseNote_G, BaseNote_A, BaseNote_B}

\* enum Accidental: halves of a semitone
Natural == 0
Sharp == 2
Flat == -2
MicroSharp == 1
MicroFlat == -1

\* Option<Accidental>::None, a value no Accidental has
None == 127

Accidentals == {Natural, Sharp, Flat, MicroSharp, MicroFlat}

\* 2^20, the unit of the fixed-point numbers powf is computed in
POWF_SCALE == 1048576

\* 2^(r/24) in units of 2^-20, for r = 0..23 quarter tones
QUARTER_TONE_RATIOS ==
    << 1048576, 1079302, 1110928, 1143480, 1176987, 1211475,
       1246974, 1283513, 1321123, 1359835, 1399681, 1440695,
       1482910, 1526363, 1571089, 1617125, 1664511, 1713285,
       1763488, 1815162, 1868350, 1923097, 1979448, 2037450 >>

----------------------------------------------------------------------------
(* Inputs the operations are called with *)

RegAddrs == (0..MaxAddr) \cup {255}

\* bytes written with write_register
WriteValues == {0, 1, 165, 254}

\* bytes given to volume and set_noise_freq
LevelBytes == {0, 15, 16, 31, 32, 255}

\* 16-bit tone periods
Periods == {0, 1, 256, 284, 4095, 65535}

\* 32-bit frequencies in Hz: 0, small ones, and the ones whose product with
\* 16 leaves the 32 bits
Frequencies == {0, 1, 2, 440, 125000, 268435456, 268435457}

Clocks == {1000000, 2000000}

\* values of the sweep counter `c` of examples/all.rs
SweepCounters == {1, 256}

\* registers given to read: enum Register, 0..15
Registers == 0..15

\* the texts given to note, told apart by their index in this list
NoteTexts == <<"A4", "C#4", "">>

\* envelope shapes: <<variant, payload>>; the table of a RawEnvelope is not looked at
EnvelopeShapes ==
    {<<Builtin, b>> : b \in BuiltinEnvelopeShapes}
    \cup {<<InvertedBuiltin, b>> : b \in BuiltinEnvelopeShapes}
    \cup {<<RawEnvelope, 0>>}
    \cup {<<CustomU8, n>> : n \in {0, 4, 9, 13, 251, 255}}

\* envelope frequencies: <<variant, u16>>
EnvelopeValues == {0, 1, 2, 120, 1092, 1093, 3906, 8000, 65535}

EnvelopeFrequencies == {Hertz, BeatsPerMinute, Integer} \X EnvelopeValues

\* 32-bit clocks given to as_ep
EnvelopeClocks == {0, 255, 1000000, 2000000, 16777216, 40000000, 2147483647}

\* notes: Note::new(base_note, octave, accidental).transpose(offset), the
\* offset counted in halves of a semitone
NoteOctaves == {4, 14, 15, 255}
NoteOffsets == {0, 5}

\* the direction of the rounding error of the f32 computation of as_hz
Ulps == {-1, 0, 1}

\* bytes given to write_u8 on a DataBus of its own
DataBytes == {0, 1, 2, 4, 8, 16, 32, 64, 128, 15, 28, 85, 127, 165, 170, 240, 254, 255}

\* the register writes during which a pin write may fail
FaultAddrs == {IoPortMixerSettings, 255}
FaultValues == {1, 254}

----------------------------------------------------------------------------
(* Instructions *)

CallI(name, arguments) == [k |-> "call", f |-> name, args |-> arguments]
RetI(name) == [k |-> "ret", f |-> name, args |-> <<>>]
PinI(pin, arguments) == [k |-> "pin", f |-> pin, args |-> arguments]
PanicI(why) == [k |-> "panic", f |-> why, args |-> <<>>]
\* a return that hands a value back
RetV(name, value) == [k |-> "ret", f |-> name, args |-> <<value>>]
\* a pin write whose set_state returned Err
FailI(pin, arguments) == [k |-> "fail", f |-> pin, args |-> arguments]

----------------------------------------------------------------------------
(* Mode::STATES and Mode::pin_states: (BDIR, BC2, BC1) per mode *)

\* the table of the prototype driver src/src/ym2149f.rs, which differs in the
\* READ and WRITE rows
STATES_ym2149f ==
    << <<Low, High, Low>>,
       <<High, Low, Low>>,
       <<Low, Low, High>>,
       <<High, High, High>> >>

STATES ==
    << <<Low, High, Low>>,     \* INACTIVE
       <<Low, High, High>>,    \* READ
       <<High, High, Low>>,    \* WRITE
       <<High, High, High>> >> \* ADDRESS

pin_states(mode) == STATES[mode + 1]

\* set_mode driving BC1 before BDIR
set_mode_bc1_first(mode) ==
    LET st == pin_states(mode)
    IN  << CallI("set_mode", <<mode>>),
           PinI("bc1", <<st[3]>>),
           PinI("bdir", <<st[1]>>),
           RetI("set_mode") >>

\* YM2149::set_mode: BDIR first, then BC1; BC2 is not driven
set_mode(mode) ==
    LET st == pin_states(mode)
    IN  << CallI("set_mode", <<mode>>),
           PinI("bdir", <<st[1]>>),
           PinI("bc1", <<st[3]>>),
           RetI("set_mode") >>

\* (data >> bit) & 1
BitOf(data, bit) == (data \div (2 ^ bit)) % 2

\* write_u8 with the most significant bit on line 0: line `bit` gets bit
\* 7 - bit of data
write_u8_msb_first(data) ==
    << CallI("write_u8", <<data>>) >>
    \o [i \in 1..8 |->
          PinI("data", <<i - 1, IF BitOf(data, 8 - i) = 1 THEN High ELSE Low>>)]
    \o << RetI("write_u8") >>

\* write_u8 whose loop is `for bit in 0..7`: line 7 is never written
write_u8_seven_lines(data) ==
    << CallI("write_u8", <<data>>) >>
    \o [i \in 1..7 |->
          PinI("data", <<i - 1, IF BitOf(data, i - 1) = 1 THEN High ELSE Low>>)]
    \o << RetI("write_u8") >>

\* DataBus::write_u8: line 0 first; line `bit` gets bit `bit` of data
write_u8(data) ==
    << CallI("write_u8", <<data>>) >>
    \o [i \in 1..8 |->
          PinI("data", <<i - 1, IF BitOf(data, i - 1) = 1 THEN High ELSE Low>>)]
    \o << RetI("write_u8") >>

\* u8::clamp
clamp(x, lo, hi) == IF x < lo THEN lo ELSE IF x > hi THEN hi ELSE x

\* write_register going from ADDRESS to WRITE with no INACTIVE in between
write_register_no_inactive(register, value) ==
    LET r == clamp(register, 0, 15)
    IN  << CallI("write_register", <<register, value>>) >>
        \o set_mode(ADDRESS)
        \o write_u8(r)
        \o set_mode(WRITE)
        \o write_u8(value)
        \o set_mode(INACTIVE)
        \o << RetI("write_register") >>

\* write_register of the prototype driver src/src/ym2149.rs: no clamp
write_register_unclamped(register, value) ==
    << CallI("write_register", <<register, value>>) >>
    \o set_mode(ADDRESS)
    \o write_u8(register)
    \o set_mode(INACTIVE)
    \o set_mode(WRITE)
    \o write_u8(value)
    \o set_mode(INACTIVE)
    \o << RetI("write_register") >>

\* write_register clamping to the sound registers 0..13, the I/O ports left out
write_register_clamp_13(register, value) ==
    LET r == clamp(register, 0, 13)
    IN  << CallI("write_register", <<register, value>>) >>
        \o set_mode(ADDRESS)
        \o write_u8(r)
        \o set_mode(INACTIVE)
        \o set_mode(WRITE)
        \o write_u8(value)
        \o set_mode(INACTIVE)
        \o << RetI("write_register") >>

\* write_register without the closing set_mode(INACTIVE)
write_register_stays_in_write(register, value) ==
    LET r == clamp(register, 0, 15)
    IN  << CallI("write_register", <<register, value>>) >>
        \o set_mode(ADDRESS)
        \o write_u8(r)
        \o set_mode(INACTIVE)
        \o set_mode(WRITE)
        \o write_u8(value)
        \o << RetI("write_register") >>

\* YM2149::write_register
write_register(register, value) ==
    LET r == clamp(register, 0, 15)
    IN  << CallI("write_register", <<register, value>>) >>
        \o set_mode(ADDRESS)
        \o write_u8(r)
        \o set_mode(INACTIVE)
        \o set_mode(WRITE)
        \o write_u8(value)
        \o set_mode(INACTIVE)
        \o << RetI("write_register") >>

\* the bytes of a u16, most significant first
to_be_bytes(period) == << (period \div U8_MODULUS) % U8_MODULUS, period % U8_MODULUS >>

\* u16::to_le_bytes
to_le_bytes(period) == << period % U8_MODULUS, (period \div U8_MODULUS) % U8_MODULUS >>

\* tone masking the rough byte to the 4 bits the chip keeps
tone_rough_masked(channel, period) ==
    LET bytes == to_le_bytes(period)
        register_pair_index == channel * 2
    IN  << CallI("tone", <<channel, period>>) >>
        \o write_register(register_pair_index, bytes[1])
        \o write_register(register_pair_index + 1, bytes[2] % 16)
        \o << RetI("tone") >>

\* tone taking the channel itself as the index of its register pair
tone_index_unscaled(channel, period) ==
    LET bytes == to_le_bytes(period)
        register_pair_index == channel
    IN  << CallI("tone", <<channel, period>>) >>
        \o write_register(register_pair_index, bytes[1])
        \o write_register(register_pair_index + 1, bytes[2])
        \o << RetI("tone") >>

\* YM2149::tone
tone(channel, period) ==
    LET bytes == to_le_bytes(period)
        register_pair_index == channel * 2
    IN  << CallI("tone", <<channel, period>>) >>
        \o write_register(register_pair_index, bytes[1])
        \o write_register(register_pair_index + 1, bytes[2])
        \o << RetI("tone") >>

\* tone_hz of the prototype driver src/src/ym2149.rs: the divisor is
\* 16 * frequency + 1
tone_hz_plus_one(channel, frequency, overflow_checks) ==
    LET overflows == frequency > U32_MAX_DIV_16
        divisor == 16 * (frequency % (U32_MAX_DIV_16 + 1)) + 1
    IN  << CallI("tone_hz", <<channel, frequency>>) >>
        \o IF overflows /\ overflow_checks
           THEN << PanicI("attempt to multiply with overflow") >>
           ELSE LET tp == master_clock_frequency \div divisor
                IN  tone(channel, tp % U16_MODULUS) \o << RetI("tone_hz") >>

\* YM2149::tone_hz.  `16 * frequency` is a u32 product: when it leaves the 32
\* bits a build with overflow checks panics and a build without them keeps
\* the low 32 bits, (frequency mod 2^28) * 16.  A zero divisor panics in
\* every build.  `tp as u16` keeps the low 16 bits.
tone_hz(channel, frequency, overflow_checks) ==
    LET overflows == frequency > U32_MAX_DIV_16
        divisor == 16 * (frequency % (U32_MAX_DIV_16 + 1))
    IN  << CallI("tone_hz", <<channel, frequency>>) >>
        \o IF overflows /\ overflow_checks
           THEN << PanicI("attempt to multiply with overflow") >>
           ELSE IF divisor = 0
           THEN << PanicI("attempt to divide by zero") >>
           ELSE LET tp == master_clock_frequency \div divisor
                IN  tone(channel, tp % U16_MODULUS) \o << RetI("tone_hz") >>

\* set_noise_freq writing the byte as it is given
set_noise_freq_unmasked(frequency) ==
    << CallI("set_noise_freq", <<frequency>>) >>
    \o write_register(6, frequency)
    \o << RetI("set_noise_freq") >>

\* YM2149::set_noise_freq; frequency & 0x1F
set_noise_freq(frequency) ==
    << CallI("set_noise_freq", <<frequency>>) >>
    \o write_register(6, frequency % 32)
    \o << RetI("set_noise_freq") >>

\* volume of the prototype driver src/src/ym2149.rs: volume & 0x0F
volume_mask4(channel, vol) ==
    << CallI("volume", <<channel, vol>>) >>
    \o write_register(8 + channel, vol % 16)
    \o << RetI("volume") >>

\* YM2149::volume; volume & 0x1F
volume(channel, vol) ==
    << CallI("volume", <<channel, vol>>) >>
    \o write_register(8 + channel, vol % 32)
    \o << RetI("volume") >>

\* examples/all.rs, main: the driver calls up to the end of one pass of the
\* sweep loop whose counter is c
main_all(c) ==
    << CallI("main_all", <<c>>) >>
    \o set_mode(INACTIVE)
    \o write_register(IoPortMixerSettings, 254)
    \o volume(AudioChannel_A, 15)
    \o tone(AudioChannel_A, c)
    \o << RetI("main_all") >>

\* a read that does nothing and hands back 0
read_returns_zero(register) ==
    << CallI("read", <<register>>), RetV("read", 0) >>

\* YM2149::read: unimplemented!()
read(register) ==
    << CallI("read", <<register>>),
       PanicI("not implemented: Mode::READ and .read() are not yet usable.") >>

\* YM2149::note: todo!() is its first statement; note_s is an index of NoteTexts
note(channel, note_s) ==
    << CallI("note", <<channel, note_s>>),
       PanicI("not yet implemented: .note() is not yet implemented: Unfinished code") >>

\* the inversion RawEnvelope::invert applies to a level: 0xF - b
invert_0xF_minus(b) == 15 - b

\* u8::bitxor(0b00000100)
bitxor4(b) == IF (b \div 4) % 2 = 1 THEN b - 4 ELSE b + 4

\* impl From<EnvelopeShape> for u8 (src/src/audio.rs); value is <<variant, payload>>
u8_from_EnvelopeShape(value) ==
    << CallI("u8_from_EnvelopeShape", value) >>
    \o CASE value[1] = Builtin -> << RetV("u8_from_EnvelopeShape", value[2]) >>
         [] value[1] = InvertedBuiltin -> << RetV("u8_from_EnvelopeShape", bitxor4(value[2])) >>
         [] value[1] = RawEnvelope -> << PanicI("not yet implemented") >>
         [] value[1] = CustomU8 -> << RetV("u8_from_EnvelopeShape", value[2]) >>

\* master_clock_frequency.checked_div(256 * (f_e as u32)).unwrap_or(1) as u16:
\* checked_div is None only for the divisor 0; `as u16` keeps the low 16 bits
Hertz_ep(f_e, clock) ==
    IF 256 * f_e = 0 THEN 1 ELSE (clock \div (256 * f_e)) % U16_MODULUS

\* EnvelopeFrequency::as_ep (src/src/audio.rs); self is <<variant, u16>>.
\* `60 * ...` is a u16 product: when it leaves the 16 bits a build with
\* overflow checks panics and a build without them keeps the low 16 bits.
RECURSIVE as_ep(_, _, _)
as_ep(self, clock, overflow_checks) ==
    << CallI("as_ep", <<self[1], self[2], clock>>) >>
    \o CASE self[1] = Hertz -> << RetV("as_ep", Hertz_ep(self[2], clock)) >>
         [] self[1] = BeatsPerMinute ->
              LET inner == as_ep(<<Hertz, self[2]>>, clock, overflow_checks)
                  ep == inner[Len(inner)].args[1]
              IN  inner
                  \o IF 60 * ep >= U16_MODULUS /\ overflow_checks
                     THEN << PanicI("attempt to multiply with overflow") >>
                     ELSE << RetV("as_ep", (60 * ep) % U16_MODULUS) >>
         [] self[1] = Integer -> << RetV("as_ep", self[2]) >>

\* Option::unwrap_or
unwrap_or(opt, default) == IF opt = None THEN default ELSE opt

\* Note::new; a Note is <<base_note, octave, accidental, offset>>, the offset
\* in halves of a semitone
Note_new(base_note, octave, accidental) == <<base_note, octave, accidental, 0>>

\* transpose adding the semitones to the offset the note has
transpose_adding(self, semitones) == <<self[1], self[2], self[3], self[4] + semitones>>

\* Note::transpose: the offset is replaced, not added to
transpose(self, semitones) == <<self[1], self[2], self[3], semitones>>

\* a call n.transpose(semitones): self is taken by value (Note is Copy) and
\* the new note is handed back
call_transpose(self, semitones) ==
    << CallI("transpose", self \o <<semitones>>),
       RetV("transpose", transpose(self, semitones)) >>

\* distance_a4 with the octave clamped to 0..15
distance_a4_clamp_15(self) ==
    2 * self[1] + unwrap_or(self[3], Natural) + (clamp(self[2], 0, 15) - 4) * 24 + self[4]

\* distance_a4 with the base note counted from C
distance_a4_from_c(self) ==
    2 * (self[1] + 9) + unwrap_or(self[3], Natural) + (clamp(self[2], 0, 14) - 4) * 24 + self[4]

\* Note::as_hz, distance_a4, in halves of a semitone (every term of the
\* source doubled): f32::from(base_note) + f32::from(accidental) with
\* f32::from(acc) = acc / 2.0, + (octave.clamp(0, 14) - 4) * 12 + offset.
\* The f32 sums of these multiples of 0.5 are exact.
distance_a4(self) ==
    2 * self[1] + unwrap_or(self[3], Natural) + (clamp(self[2], 0, 14) - 4) * 24 + self[4]

\* REFERENCE_PITCH * powf(2.0, distance_a4 / 12.0) in units of 2^(k - 20),
\* where k = floor(q / 24) for the distance q in halves of a semitone.  The
\* f32 value carries the rounding errors of the division, of powf and of the
\* product: it is taken to be off by at most 2^-20 of itself, in the
\* direction ulp.
pitch_scaled(q, ulp) ==
    LET m == REFERENCE_PITCH * QUARTER_TONE_RATIOS[(q % 24) + 1]
    IN  m + ulp * (m \div POWF_SCALE)

\* `as u32` of the pitch with its fraction cut off
truncf_as_u32(m, k) == m \div (2 ^ (20 - k))

\* roundf(...) as u32: the nearest integer of m * 2^(k - 20), halves away
\* from zero
roundf_as_u32(m, k) == ((m \div (2 ^ (19 - k))) + 1) \div 2

\* Note::as_hz (src/src/audio.rs)
as_hz(self, ulp) ==
    LET q == distance_a4(self)
    IN  << CallI("as_hz", self),
           RetV("as_hz", roundf_as_u32(pitch_scaled(q, ulp), q \div 24)) >>

\* the value the last instruction of a call hands back
ValueOf(instructions) == instructions[Len(instructions)].args[1]

\* the call ends in a panic
Panics(instructions) == instructions[Len(instructions)].k = "panic"

\* YM2149::set_envelope_frequency, which examples/doremi_pluck.rs calls and
\* src/src/lib.rs does not define.  After the specification: resolves the
\* EnvelopeFrequency to the 16-bit divider, writes its low byte to register
\* 11, then its high byte to register 12.
set_envelope_frequency(frequency, overflow_checks) ==
    LET resolved == as_ep(frequency, master_clock_frequency, overflow_checks)
    IN  << CallI("set_envelope_frequency", frequency) >>
        \o resolved
        \o IF Panics(resolved)
           THEN << >>
           ELSE LET bytes == to_le_bytes(ValueOf(resolved))
                IN  write_register(EFreq8bitFineAdj, bytes[1])
                    \o write_register(EFreq8bitRoughAdj, bytes[2])
                    \o << RetI("set_envelope_frequency") >>

\* YM2149::set_envelope_shape, which examples/doremi_pluck.rs calls and
\* src/src/lib.rs does not define.  After the specification: resolves the
\* EnvelopeShape to its 8-bit code and writes register 13.
set_envelope_shape(shape) ==
    LET resolved == u8_from_EnvelopeShape(shape)
    IN  << CallI("set_envelope_shape", shape) >>
        \o resolved
        \o IF Panics(resolved)
           THEN << >>
           ELSE write_register(EShape, ValueOf(resolved))
                \o << RetI("set_envelope_shape") >>

\* YM2149::play_note, which examples/doremi_pluck.rs calls and
\* src/src/lib.rs does not define.  After the specification: computes the
\* rounded frequency of the note in Hz and converts it to the tone period
\* clock / (16 * hz), truncating; the period is then written as tone writes
\* it.  No note has a frequency of 0, or one whose product with 16 leaves
\* the 32 bits.
play_note(channel, note_value, ulp) ==
    LET resolved == as_hz(note_value, ulp)
        period == master_clock_frequency \div (16 * ValueOf(resolved))
    IN  << CallI("play_note", <<channel>> \o note_value) >>
        \o resolved
        \o tone(channel, period % U16_MODULUS)
        \o << RetI("play_note") >>

----------------------------------------------------------------------------
(* main of examples/doremi_pluck.rs *)

bpm == 120

root_note == Note_new(BaseNote_C, 4, None)

\* the scale, in semitones above the root note
major_scale == <<0, 2, 4, 5, 7, 9, 11, 12>>

\* the head of `loop`: the body is executed once more
LoopI == [k |-> "loop", f |-> "loop", args |-> <<>>]
\* the two assignments that end the body
LocalsI == [k |-> "locals", f |-> "direction, i", args |-> <<>>]

\* a direction that turns round at either end without stopping there
next_direction_turning(i, direction) ==
    IF i = 0 THEN 1 ELSE IF i = 7 THEN -1 ELSE direction

\* direction += (i == 0) as i8 - (i == 7) as i8
next_direction(i, direction) ==
    direction + (IF i = 0 THEN 1 ELSE 0) - (IF i = 7 THEN 1 ELSE 0)

\* i = (i + direction).clamp(0, 7), with the direction already updated
next_i(i, direction) == clamp(i + direction, 0, 7)

\* main up to the loop: the mixer, the level of channel A and the envelope
\* frequency are set once
main_doremi(overflow_checks) ==
    << CallI("main", <<>>) >>
    \o set_mode(INACTIVE)
    \o write_register(IoPortMixerSettings, 62)
    \o volume(AudioChannel_A, 16)
    \o set_envelope_frequency(<<BeatsPerMinute, bpm>>, overflow_checks)
    \o << LoopI >>

\* one pass of the body of the loop with the scale index at i; the offsets
\* of a note are counted in halves of a semitone
loop_body(i, ulp) ==
    play_note(AudioChannel_A, transpose(root_note, 2 * major_scale[i + 1]), ulp)
    \o set_envelope_shape(<<Builtin, FadeOut>>)
    \o << CallI("delay_ms", <<(60 * 1000) \div bpm>>), RetI("delay_ms") >>
    \o << LocalsI >>

----------------------------------------------------------------------------
(* The chip on the bus, as the documentation of Mode describes it *)

\* the byte that the levels p of the eight data lines stand for
byte_of(p) ==
    p[0] + 2 * p[1] + 4 * p[2] + 8 * p[3]
    + 16 * p[4] + 32 * p[5] + 64 * p[6] + 128 * p[7]

\* the chip after the reset pulse: every register holds 0, register 0 is
\* addressed; `before` keeps the register array as it was when the running
\* register write was called, for comparison
RESET ==
    [address |-> 0,
     registers |-> [r \in 0..15 |-> 0],
     before |-> [r \in 0..15 |-> 0]]

\* the mode the bus control decoder makes of the levels of BDIR and BC1
decoder(bd, bc) ==
    CHOOSE m \in Modes : <<bd, bc>> = <<STATES[m + 1][1], STATES[m + 1][3]>>

\* what the chip c does while BDIR and BC1 are at bd and bc and the bus
\* holds data: in ADDRESS the address is fetched (one of 16 registers, the
\* low four bits), in WRITE the data is written to the register currently
\* being addressed, in INACTIVE and READ nothing is stored
chip_sees(c, bd, bc, data) ==
    IF decoder(bd, bc) = ADDRESS THEN [c EXCEPT !.address = data % 16]
    ELSE IF decoder(bd, bc) = WRITE THEN [c EXCEPT !.registers[c.address] = data]
    ELSE c

----------------------------------------------------------------------------
(* The state machine *)

\* YM2149::new: the driver takes the pins as they are
Init ==
    /\ bdir \in {Low, High}
    /\ bc1 \in {Low, High}
    /\ pins \in {[i \in 0..7 |-> Low], [i \in 0..7 |-> High]}
    /\ master_clock_frequency \in Clocks
    /\ todo = <<>>
    /\ stack = <<>>
    /\ trace = <<>>
    /\ status = "ok"
    /\ faulted = FALSE
    /\ chip = RESET
    /\ locals = [i |-> 0, direction |-> 0]
    /\ played = <<>>

Idle == status = "ok" /\ todo = <<>>

\* the caller starts an operation: its instructions are what is to be done
Started == /\ trace' = <<>>
           /\ UNCHANGED <<bdir, bc1, pins, master_clock_frequency, stack, status, faulted, chip, locals, played>>

Do_set_mode ==
    /\ Idle
    /\ \E m \in Modes : todo' = set_mode(m)
    /\ Started

Do_write_register ==
    /\ Idle
    /\ \E a \in RegAddrs, v \in WriteValues : todo' = write_register(a, v)
    /\ Started

Do_tone ==
    /\ Idle
    /\ \E ch \in AudioChannels, p \in Periods : todo' = tone(ch, p)
    /\ Started

Do_tone_hz ==
    /\ Idle
    /\ \E ch \in AudioChannels, fr \in Frequencies, oc \in BOOLEAN :
          todo' = tone_hz(ch, fr, oc)
    /\ Started

Do_set_noise_freq ==
    /\ Idle
    /\ \E fr \in LevelBytes : todo' = set_noise_freq(fr)
    /\ Started

Do_volume ==
    /\ Idle
    /\ \E ch \in AudioChannels, v \in LevelBytes : todo' = volume(ch, v)
    /\ Started

Do_main_all ==
    /\ Idle
    /\ \E c \in SweepCounters : todo' = main_all(c)
    /\ Started

Running == status = "ok" /\ todo # <<>>

Step_call ==
    /\ Running
    /\ Head(todo).k = "call"
    /\ stack' = <<Head(todo)>> \o stack
    /\ trace' = Append(trace, Head(todo))
    /\ todo' = Tail(todo)
    /\ UNCHANGED <<bdir, bc1, pins, master_clock_frequency, status, faulted, chip, locals, played>>

Step_ret ==
    /\ Running
    /\ Head(todo).k = "ret"
    /\ stack' = Tail(stack)
    /\ trace' = Append(trace, Head(todo))
    /\ todo' = Tail(todo)
    /\ UNCHANGED <<bdir, bc1, pins, master_clock_frequency, status, faulted, chip, locals, played>>

\* self.bdir.set_state(level)
Step_bdir ==
    /\ Running
    /\ Head(todo).k = "pin" /\ Head(todo).f = "bdir"
    /\ bdir' = Head(todo).args[1]
    /\ trace' = Append(trace, Head(todo))
    /\ todo' = Tail(todo)
    /\ UNCHANGED <<bc1, pins, master_clock_frequency, stack, status, faulted, chip, locals, played>>

\* self.bc1.set_state(level)
Step_bc1 ==
    /\ Running
    /\ Head(todo).k = "pin" /\ Head(todo).f = "bc1"
    /\ bc1' = Head(todo).args[1]
    /\ trace' = Append(trace, Head(todo))
    /\ todo' = Tail(todo)
    /\ UNCHANGED <<bdir, pins, master_clock_frequency, stack, status, faulted, chip, locals, played>>

\* self.pins[bit].set_state(level)
Step_data ==
    /\ Running
    /\ Head(todo).k = "pin" /\ Head(todo).f = "data"
    /\ pins' = [pins EXCEPT ![Head(todo).args[1]] = Head(todo).args[2]]
    /\ trace' = Append(trace, Head(todo))
    /\ todo' = Tail(todo)
    /\ UNCHANGED <<bdir, bc1, master_clock_frequency, stack, status, faulted, chip, locals, played>>

\* a panic aborts the program: nothing that was to follow is executed
Step_panic ==
    /\ Running
    /\ Head(todo).k = "panic"
    /\ status' = "panicked"
    /\ trace' = Append(trace, Head(todo))
    /\ todo' = <<>>
    /\ UNCHANGED <<bdir, bc1, pins, master_clock_frequency, stack, faulted, chip, locals, played>>

Next ==
    \/ Do_set_mode
    \/ Do_write_register
    \/ Do_tone
    \/ Do_tone_hz
    \/ Do_set_noise_freq
    \/ Do_volume
    \/ Do_main_all
    \/ Step_call
    \/ Step_ret
    \/ Step_bdir
    \/ Step_bc1
    \/ Step_data
    \/ Step_panic

Spec == Init /\ [][Next]_vars

----------------------------------------------------------------------------
(* The unsupported operations, called on a driver whose control lines are  *)
(* in any state set_mode can leave them in                                 *)

Do_read ==
    /\ Idle
    /\ \E r \in Registers : todo' = read(r)
    /\ Started

Do_note ==
    /\ Idle
    /\ \E ch \in AudioChannels, t \in DOMAIN NoteTexts : todo' = note(ch, t)
    /\ Started

Do_u8_from_EnvelopeShape ==
    /\ Idle
    /\ \E sh \in EnvelopeShapes : todo' = u8_from_EnvelopeShape(sh)
    /\ Started

NextUnsupported ==
    \/ Do_set_mode
    \/ Do_read
    \/ Do_note
    \/ Do_u8_from_EnvelopeShape
    \/ Step_call
    \/ Step_ret
    \/ Step_bdir
    \/ Step_bc1
    \/ Step_panic

SpecUnsupported == Init /\ [][NextUnsupported]_vars

----------------------------------------------------------------------------
(* EnvelopeFrequency::as_ep on its own: a pure function of its arguments *)

Do_as_ep ==
    /\ Idle
    /\ \E ef \in EnvelopeFrequencies, c \in EnvelopeClocks, oc \in BOOLEAN :
          todo' = as_ep(ef, c, oc)
    /\ Started

NextEnvelope ==
    \/ Do_as_ep
    \/ Step_call
    \/ Step_ret
    \/ Step_panic

SpecEnvelope == Init /\ [][NextEnvelope]_vars

----------------------------------------------------------------------------
(* Note::as_hz on its own: a pure function of the note *)

Notes ==
    {transpose(Note_new(b, o, a), t) :
        b \in BaseNotes, o \in NoteOctaves, a \in Accidentals \cup {None}, t \in NoteOffsets}

Do_as_hz ==
    /\ Idle
    /\ \E n \in Notes, u \in Ulps : todo' = as_hz(n, u)
    /\ Started

NextNote ==
    \/ Do_as_hz
    \/ Step_call
    \/ Step_ret

\* a Note is a value of its own: no driver is involved, and the lines and
\* the clock are held at one of their initial states
InitNote ==
    /\ Init
    /\ bdir = Low /\ bc1 = Low
    /\ pins = [i \in 0..7 |-> Low]
    /\ master_clock_frequency = 2000000

SpecNote == InitNote /\ [][NextNote]_vars

----------------------------------------------------------------------------
(* The envelope and note operations of examples/doremi_pluck.rs *)

FacadeFrequencies ==
    { <<Integer, 3906>>, <<BeatsPerMinute, 120>>, <<Hertz, 2>>,
      <<BeatsPerMinute, 1>>, <<Hertz, 0>> }

FacadeShapes ==
    { <<Builtin, FadeOut>>, <<InvertedBuiltin, Saw>>, <<CustomU8, 251>>, <<RawEnvelope, 0>> }

\* the root note of the example, transposed by 0, 2 and 12 semitones, and A4
FacadeNotes ==
    {transpose(Note_new(BaseNote_C, 4, None), t) : t \in {0, 4, 24}}
    \cup {Note_new(BaseNote_A, 4, None)}

Do_set_envelope_frequency ==
    /\ Idle
    /\ \E ef \in FacadeFrequencies, oc \in BOOLEAN :
          todo' = set_envelope_frequency(ef, oc)
    /\ Started

Do_set_envelope_shape ==
    /\ Idle
    /\ \E sh \in FacadeShapes : todo' = set_envelope_shape(sh)
    /\ Started

Do_play_note ==
    /\ Idle
    /\ \E ch \in {AudioChannel_A, AudioChannel_C}, n \in FacadeNotes, u \in Ulps :
          todo' = play_note(ch, n, u)
    /\ Started

NextFacade ==
    \/ Do_set_envelope_frequency
    \/ Do_set_envelope_shape
    \/ Do_play_note
    \/ Step_call
    \/ Step_ret
    \/ Step_bdir
    \/ Step_bc1
    \/ Step_data
    \/ Step_panic

SpecFacade == Init /\ [][NextFacade]_vars

----------------------------------------------------------------------------
(* DataBus::write_u8 on a DataBus of its own, before a YM2149 owns it *)

Do_write_u8 ==
    /\ Idle
    /\ \E d \in DataBytes : todo' = write_u8(d)
    /\ Started

NextDataBus ==
    \/ Do_write_u8
    \/ Step_call
    \/ Step_data
    \/ Step_ret

SpecDataBus == Init /\ [][NextDataBus]_vars

----------------------------------------------------------------------------
(* write_register when one pin write returns Err.  OutputPin::set_state    *)
(* returns a Result: set_mode unwraps it, write_u8 discards it with        *)
(* `let _ =`.  A failed write is taken to leave the line as it was.        *)

Do_write_register_few ==
    /\ Idle
    /\ \E a \in FaultAddrs, v \in FaultValues : todo' = write_register(a, v)
    /\ Started

\* self.bdir.set_state(bdir).unwrap() on an Err
Fail_bdir ==
    /\ Running /\ ~faulted
    /\ Head(todo).k = "pin" /\ Head(todo).f = "bdir"
    /\ faulted' = TRUE
    /\ status' = "panicked"
    /\ trace' = trace \o << FailI("bdir", Head(todo).args),
                            PanicI("called Result::unwrap() on an Err value") >>
    /\ todo' = <<>>
    /\ UNCHANGED <<bdir, bc1, pins, master_clock_frequency, stack, chip, locals, played>>

\* self.bc1.set_state(bc1).unwrap() on an Err
Fail_bc1 ==
    /\ Running /\ ~faulted
    /\ Head(todo).k = "pin" /\ Head(todo).f = "bc1"
    /\ faulted' = TRUE
    /\ status' = "panicked"
    /\ trace' = trace \o << FailI("bc1", Head(todo).args),
                            PanicI("called Result::unwrap() on an Err value") >>
    /\ todo' = <<>>
    /\ UNCHANGED <<bdir, bc1, pins, master_clock_frequency, stack, chip, locals, played>>

\* let _ = self.pins[bit].set_state(state) on an Err: the loop goes on
Fail_data ==
    /\ Running /\ ~faulted
    /\ Head(todo).k = "pin" /\ Head(todo).f = "data"
    /\ faulted' = TRUE
    /\ trace' = Append(trace, FailI("data", Head(todo).args))
    /\ todo' = Tail(todo)
    /\ UNCHANGED <<bdir, bc1, pins, master_clock_frequency, stack, status, chip, locals, played>>

NextPinFault ==
    \/ Do_write_register_few
    \/ Step_call
    \/ Step_ret
    \/ Step_bdir
    \/ Step_bc1
    \/ Step_data
    \/ Fail_bdir
    \/ Fail_bc1
    \/ Fail_data

SpecPinFault == Init /\ [][NextPinFault]_vars

----------------------------------------------------------------------------
(* Note::transpose on its own, called on new and on transposed notes *)

\* the notes transposed and the semitones asked for, in halves of a semitone
TransposedOctaves == {4, 15}
TransposedAccidentals == {None, Sharp, MicroFlat}
TransposeSemitones == {0, 5, -24}

TransposedNotes ==
    {transpose(Note_new(b, o, a), t) :
        b \in BaseNotes, o \in TransposedOctaves, a \in TransposedAccidentals,
        t \in NoteOffsets}

Do_transpose ==
    /\ Idle
    /\ \E n \in TransposedNotes, t \in TransposeSemitones : todo' = call_transpose(n, t)
    /\ Started

NextTranspose ==
    \/ Do_transpose
    \/ Step_call
    \/ Step_ret

SpecTranspose == InitNote /\ [][NextTranspose]_vars

----------------------------------------------------------------------------
(* The register operations on a driver whose control lines are INACTIVE    *)
(* when the first of them is called                                        *)

InitInactive ==
    /\ Init
    /\ bdir = Low /\ bc1 = Low

NextInactive ==
    \/ Do_write_register
    \/ Do_tone
    \/ Do_tone_hz
    \/ Do_set_noise_freq
    \/ Do_volume
    \/ Step_call
    \/ Step_ret
    \/ Step_bdir
    \/ Step_bc1
    \/ Step_data
    \/ Step_panic

SpecInactive == InitInactive /\ [][NextInactive]_vars

----------------------------------------------------------------------------
(* Register writes with the chip on the bus: the chip sees the lines after *)
(* every single pin write                                                  *)

\* the registers written and the values written to them
ChipAddrs == {AFreq8bitFinetone, IoPortMixerSettings, 255}
ChipValues == {0, 7, 255}

Do_write_register_chip ==
    /\ Idle
    /\ \E a \in ChipAddrs, v \in ChipValues : todo' = write_register(a, v)
    /\ chip' = [chip EXCEPT !.before = chip.registers]
    /\ trace' = <<>>
    /\ UNCHANGED <<bdir, bc1, pins, master_clock_frequency, stack, status, faulted, locals, played>>

\* self.bdir.set_state(level), and the chip's reaction to the new levels
Chip_bdir ==
    /\ Running
    /\ Head(todo).k = "pin" /\ Head(todo).f = "bdir"
    /\ bdir' = Head(todo).args[1]
    /\ chip' = chip_sees(chip, bdir', bc1, byte_of(pins))
    /\ trace' = Append(trace, Head(todo))
    /\ todo' = Tail(todo)
    /\ UNCHANGED <<bc1, pins, master_clock_frequency, stack, status, faulted, locals, played>>

\* self.bc1.set_state(level), and the chip's reaction to the new levels
Chip_bc1 ==
    /\ Running
    /\ Head(todo).k = "pin" /\ Head(todo).f = "bc1"
    /\ bc1' = Head(todo).args[1]
    /\ chip' = chip_sees(chip, bdir, bc1', byte_of(pins))
    /\ trace' = Append(trace, Head(todo))
    /\ todo' = Tail(todo)
    /\ UNCHANGED <<bdir, pins, master_clock_frequency, stack, status, faulted, locals, played>>

\* self.pins[bit].set_state(level), and the chip's reaction to the new bus
Chip_data ==
    /\ Running
    /\ Head(todo).k = "pin" /\ Head(todo).f = "data"
    /\ pins' = [pins EXCEPT ![Head(todo).args[1]] = Head(todo).args[2]]
    /\ chip' = chip_sees(chip, bdir, bc1, byte_of(pins'))
    /\ trace' = Append(trace, Head(todo))
    /\ todo' = Tail(todo)
    /\ UNCHANGED <<bdir, bc1, master_clock_frequency, stack, status, faulted, locals, played>>

NextChip ==
    \/ Do_write_register_chip
    \/ Step_call
    \/ Step_ret
    \/ Chip_bdir
    \/ Chip_bc1
    \/ Chip_data

\* the lines are INACTIVE and the chip has been reset when the driver is made
InitChip ==
    /\ Init
    /\ bdir = Low /\ bc1 = Low
    /\ master_clock_frequency = 2000000

SpecChip == InitChip /\ [][NextChip]_vars

----------------------------------------------------------------------------
(* examples/doremi_pluck.rs: main runs once and never leaves its loop *)

\* the last MaxPlayed elements of a sequence
LastPlayed(seq) ==
    IF Len(seq) > MaxPlayed THEN SubSeq(seq, Len(seq) - MaxPlayed + 1, Len(seq)) ELSE seq

Do_main_doremi ==
    /\ Idle
    /\ trace = <<>>
    /\ \E oc \in BOOLEAN : todo' = main_doremi(oc)
    /\ Started

\* loop { ... }: the body is entered with the scale index as it is now, and
\* its first statement plays the note of that index
Step_loop ==
    /\ Running
    /\ Head(todo).k = "loop"
    /\ \E u \in Ulps : todo' = loop_body(locals.i, u) \o << LoopI >>
    /\ played' = LastPlayed(Append(played, locals.i))
    /\ trace' = <<>>
    /\ UNCHANGED <<bdir, bc1, pins, master_clock_frequency, stack, status, faulted, chip, locals>>

\* direction += (i == 0) as i8 - (i == 7) as i8; i = (i + direction).clamp(0, 7)
Step_locals ==
    /\ Running
    /\ Head(todo).k = "locals"
    /\ locals' = [direction |-> next_direction(locals.i, locals.direction),
                  i |-> next_i(locals.i, next_direction(locals.i, locals.direction))]
    /\ trace' = Append(trace, Head(todo))
    /\ todo' = Tail(todo)
    /\ UNCHANGED <<bdir, bc1, pins, master_clock_frequency, stack, status, faulted, chip, played>>

NextDoremi ==
    \/ Do_main_doremi
    \/ Step_loop
    \/ Step_locals
    \/ Step_call
    \/ Step_ret
    \/ Step_bdir
    \/ Step_bc1
    \/ Step_data

\* the clock of the example
InitDoremi ==
    /\ Init
    /\ master_clock_frequency = 2000000

SpecDoremi == InitDoremi /\ [][NextDoremi]_vars

----------------------------------------------------------------------------
(* Observations of a run *)

IsPrefix(s, t) == Len(s) <= Len(t) /\ SubSeq(t, 1, Len(s)) = s

Min(x, y) == IF x < y THEN x ELSE y

\* the byte the eight data lines hold
BusValue ==
    pins[0] + 2 * pins[1] + 4 * pins[2] + 8 * pins[3]
    + 16 * pins[4] + 32 * pins[5] + 64 * pins[6] + 128 * pins[7]

IsPinWrite(e) == e.k = "pin"
IsProtocolStep(e) == e.k = "call" /\ e.f \in {"set_mode", "write_u8"}
IsRegisterCall(e) == e.k = "call" /\ e.f = "write_register"
IsToneCall(e) == e.k = "call" /\ e.f = "tone"

\* the pin writes of an instruction sequence, in order
PinWrites(seq) == SelectSeq(seq, IsPinWrite)

\* the set_mode and write_u8 calls of an instruction sequence, in order
Steps(seq) == SelectSeq(seq, IsProtocolStep)

\* the write_register calls of an instruction sequence, in order
RegisterCalls(seq) == SelectSeq(seq, IsRegisterCall)

ToneCalls(seq) == SelectSeq(seq, IsToneCall)

\* the running (or last) top-level operation is a call of `name`
TopIs(name) == trace # <<>> /\ trace[1].k = "call" /\ trace[1].f = name

TopArgs == trace[1].args

\* the top-level operation has returned
Returned == Idle /\ trace # <<>>

\* the handshake of one register write, as the protocol requires it
Handshake(r, v) ==
    << CallI("set_mode", <<ADDRESS>>),
       CallI("write_u8", <<r>>),
       CallI("set_mode", <<INACTIVE>>),
       CallI("set_mode", <<WRITE>>),
       CallI("write_u8", <<v>>),
       CallI("set_mode", <<INACTIVE>>) >>

----------------------------------------------------------------------------
(* C1: a call write_register(a, v) performs, in this order and nothing     *)
(* else, set_mode(ADDRESS), write_u8(min(a,15)), set_mode(INACTIVE),       *)
(* set_mode(WRITE), write_u8(v), set_mode(INACTIVE): while it runs the     *)
(* steps done so far are a prefix of that list, and once it has returned   *)
(* they are the whole list, made of 4*2 + 2*8 pin writes, and no other     *)
(* call was made.                                                          *)
C1_WriteRegisterSteps ==
    TopIs("write_register") =>
        LET expected == Handshake(Min(TopArgs[1], 15), TopArgs[2])
        IN  /\ IsPrefix(Steps(trace), expected)
            /\ Returned =>
                 /\ Steps(trace) = expected
                 /\ Len(PinWrites(trace)) = 24
                 /\ Len(SelectSeq(trace, LAMBDA e : e.k = "call")) = 7

\* write_register(255, 254) has returned
C1_Witness ==
    /\ Returned
    /\ TopIs("write_register")
    /\ TopArgs = <<255, 254>>
    /\ trace[Len(trace)] = RetI("write_register")

(* C2: write_register(a, v) never fails, the byte on the data lines at the *)
(* end of its address phase is min(a,15), and for a > 15 its pin writes    *)
(* are, one for one, those of write_register(15, v).                       *)
C2_ClampedAddress ==
    TopIs("write_register") =>
        LET a == TopArgs[1]
            v == TopArgs[2]
        IN  /\ status = "ok"
            /\ (Len(Steps(trace)) = 2 /\ stack # <<>> /\ Head(stack).f = "write_register")
                 => BusValue = Min(a, 15)
            /\ a > 15 => IsPrefix(PinWrites(trace), PinWrites(write_register(15, v)))
            /\ (a > 15 /\ Returned) => PinWrites(trace) = PinWrites(write_register(15, v))

\* write_register(16, 165) has written its address byte and is back from write_u8
C2_Witness ==
    /\ TopIs("write_register")
    /\ TopArgs = <<16, 165>>
    /\ Len(Steps(trace)) = 2
    /\ stack # <<>> /\ Head(stack).f = "write_register"
    /\ BusValue = 15

(* C3: tone(X, p) makes exactly two register writes, (2X, p mod 256) and   *)
(* then (2X+1, (p div 256) mod 256); the rough byte is not masked, and     *)
(* period 0 gives (2X, 0), (2X+1, 0).                                      *)
C3_ToneWrites ==
    TopIs("tone") =>
        LET X == TopArgs[1]
            p == TopArgs[2]
            expected == Handshake(2 * X, p % 256)
                        \o Handshake(2 * X + 1, (p \div 256) % 256)
        IN  /\ status = "ok"
            /\ IsPrefix(Steps(trace), expected)
            /\ Returned =>
                 /\ Steps(trace) = expected
                 /\ Len(RegisterCalls(trace)) = 2

\* tone(C, 65535) has returned, having written 255 as the rough byte
C3_Witness ==
    /\ Returned
    /\ TopIs("tone")
    /\ TopArgs = <<AudioChannel_C, 65535>>
    /\ BusValue = 255

\* tone(A, 0) has returned
C3_WitnessZero ==
    /\ Returned
    /\ TopIs("tone")
    /\ TopArgs = <<AudioChannel_A, 0>>

(* C4: write_register(7, 0xFE); volume(A, 0x0F); tone(A, 0x100) makes      *)
(* exactly the 4 register writes (7, 0xFE), (8, 0x0F), (0, 0), (1, 1), in  *)
(* this order, each a whole handshake; no register write starts while      *)
(* another is under way.                                                   *)
C4_Scenario ==
    /\ Len(SelectSeq(stack, IsRegisterCall)) <= 1
    /\ (TopIs("main_all") /\ TopArgs = <<256>>) =>
        LET expected == << CallI("set_mode", <<INACTIVE>>) >>
                        \o Handshake(7, 254) \o Handshake(8, 15)
                        \o Handshake(0, 0) \o Handshake(1, 1)
        IN  /\ IsPrefix(Steps(trace), expected)
            /\ Returned =>
                 /\ Steps(trace) = expected
                 /\ Len(RegisterCalls(trace)) = 4

\* the scenario has run to its end
C4_Witness ==
    /\ Returned
    /\ TopIs("main_all")
    /\ TopArgs = <<256>>
    /\ Len(RegisterCalls(trace)) = 4
    /\ BusValue = 1

(* C5: volume(X, v) makes exactly one register write, to register 8+X,     *)
(* with the value v mod 32.                                                *)
C5_VolumeWrite ==
    TopIs("volume") =>
        LET expected == Handshake(8 + TopArgs[1], TopArgs[2] % 32)
        IN  /\ status = "ok"
            /\ IsPrefix(Steps(trace), expected)
            /\ Returned =>
                 /\ Steps(trace) = expected
                 /\ Len(RegisterCalls(trace)) = 1

\* volume(B, 255) has returned and the data lines hold 31
C5_Witness ==
    /\ Returned
    /\ TopIs("volume")
    /\ TopArgs = <<AudioChannel_B, 255>>
    /\ BusValue = 31

(* C6: for every frequency f > 0, tone_hz(X, f) calls tone(X, p) with       *)
(* p = floor(master_clock_frequency / (16 * f)) and so writes the          *)
(* registers (2X, p mod 256), (2X+1, p div 256); with the clock at         *)
(* 2,000,000 and f = 440 these are (0, 28) and (1, 1) on channel A.        *)
(* floor(c / (16 * f)) is computed as (c div 16) div f, which is the same  *)
(* number and stays within the integers of the model checker.              *)
C6_TonePeriodClaim ==
    (TopIs("tone_hz") /\ TopArgs[2] > 0 /\ todo = <<>>) =>
        LET X == TopArgs[1]
            f == TopArgs[2]
            p == (master_clock_frequency \div 16) \div f
        IN  /\ status = "ok"
            /\ ToneCalls(trace) = << CallI("tone", <<X, p>>) >>
            /\ Steps(trace) = Handshake(2 * X, p % 256) \o Handshake(2 * X + 1, p \div 256)
            /\ (master_clock_frequency = 2000000 /\ f = 440 /\ X = AudioChannel_A)
                 => Steps(trace) = Handshake(0, 28) \o Handshake(1, 1)

(* C7: tone_hz never wraps around: whenever it hands a period to tone, for *)
(* a frequency f > 0, that period is floor(master_clock_frequency /        *)
(* (16 * f)) itself, not that number (or the product 16 * f) reduced       *)
(* modulo a power of two.                                                  *)
C7_NoWraparoundClaim ==
    (TopIs("tone_hz") /\ TopArgs[2] > 0) =>
        \A i \in 1..Len(ToneCalls(trace)) :
            ToneCalls(trace)[i].args[2] = (master_clock_frequency \div 16) \div TopArgs[2]

\* a call tone_hz(X, 0) is starting, running or has ended
InToneHzZero ==
    \/ TopIs("tone_hz") /\ TopArgs[2] = 0
    \/ /\ trace = <<>>
       /\ todo # <<>>
       /\ Head(todo).k = "call" /\ Head(todo).f = "tone_hz" /\ Head(todo).args[2] = 0

(* C8: tone_hz(X, 0) is rejected before any pin is driven: no step of it   *)
(* changes BDIR, BC1 or a data line, it makes no pin write and no register *)
(* write, and it ends in a panic.                                          *)
C8_ZeroFrequencyRejected ==
    [][InToneHzZero =>
         /\ bdir' = bdir /\ bc1' = bc1 /\ pins' = pins
         /\ PinWrites(trace') = <<>>
         /\ RegisterCalls(trace') = <<>>
         /\ todo' = <<>> => status' = "panicked"]_vars

\* tone_hz(B, 0) has panicked on the division
C8_Witness ==
    /\ status = "panicked"
    /\ TopIs("tone_hz")
    /\ TopArgs = <<AudioChannel_B, 0>>
    /\ trace[Len(trace)] = PanicI("attempt to divide by zero")

(* C9: set_noise_freq(f) makes exactly one register write, to register 6,  *)
(* with the value f mod 32.                                                *)
C9_NoiseWrite ==
    TopIs("set_noise_freq") =>
        LET expected == Handshake(6, TopArgs[1] % 32)
        IN  /\ status = "ok"
            /\ IsPrefix(Steps(trace), expected)
            /\ Returned =>
                 /\ Steps(trace) = expected
                 /\ Len(RegisterCalls(trace)) = 1

\* set_noise_freq(255) has returned and the data lines hold 31
C9_Witness ==
    /\ Returned
    /\ TopIs("set_noise_freq")
    /\ TopArgs = <<255>>
    /\ BusValue = 31

\* the levels (BDIR, BC1) of the datasheet's bus control decoder table
DatasheetLevels(m) ==
    CASE m = INACTIVE -> <<Low, Low>>
      [] m = READ -> <<Low, High>>
      [] m = WRITE -> <<High, Low>>
      [] m = ADDRESS -> <<High, High>>

IsSetModeCall(e) == e.k = "call" /\ e.f = "set_mode"

(* C10: the levels of a mode are a total function of the mode alone:       *)
(* INACTIVE (BDIR low, BC1 low), READ (low, high), WRITE (high, low),      *)
(* ADDRESS (high, high), BC2 high in every row, distinct modes have        *)
(* distinct (BDIR, BC1); and every call set_mode(m), whatever ran before   *)
(* it, leaves the two lines at the levels of m.                            *)
C10_ModeLevels ==
    /\ \A m \in Modes : pin_states(m)[2] = High
    /\ \A m, n \in Modes :
         m # n => <<pin_states(m)[1], pin_states(m)[3]>> # <<pin_states(n)[1], pin_states(n)[3]>>
    /\ (stack # <<>> /\ Head(stack).f = "set_mode" /\ todo # <<>> /\ Head(todo).k = "ret")
         => <<bdir, bc1>> = DatasheetLevels(Head(stack).args[1])
    /\ (trace # <<>> /\ trace[Len(trace)] = RetI("set_mode"))
         => LET calls == SelectSeq(trace, IsSetModeCall)
            IN  <<bdir, bc1>> = DatasheetLevels(calls[Len(calls)].args[1])

\* set_mode(READ), called after a register write of 254, has driven both lines
C10_Witness ==
    /\ stack # <<>> /\ Head(stack) = CallI("set_mode", <<READ>>)
    /\ todo # <<>> /\ Head(todo).k = "ret"
    /\ bdir = Low /\ bc1 = High
    /\ BusValue = 254

\* a call set_mode(m) made by the caller is starting or running
InSetMode ==
    \/ TopIs("set_mode") /\ todo # <<>>
    \/ /\ trace = <<>>
       /\ todo # <<>>
       /\ Head(todo).k = "call" /\ Head(todo).f = "set_mode"

(* C11: a call set_mode(m) is exactly: write BDIR with the level the mode  *)
(* table gives for m, then write BC1 with the level the table gives for m, *)
(* then return.  What it has done so far is always a prefix of that, once  *)
(* it has returned it is the whole of it with nothing left to be done, and *)
(* no step of it changes a data line or the stored master clock frequency. *)
C11_SetModeFrame ==
    /\ [](TopIs("set_mode") =>
            LET m == TopArgs[1]
                expected == << CallI("set_mode", <<m>>),
                               PinI("bdir", <<STATES[m + 1][1]>>),
                               PinI("bc1", <<STATES[m + 1][3]>>),
                               RetI("set_mode") >>
            IN  /\ status = "ok"
                /\ IsPrefix(trace, expected)
                /\ Returned => trace = expected)
    /\ [][InSetMode =>
            /\ pins' = pins
            /\ master_clock_frequency' = master_clock_frequency]_vars

\* set_mode(WRITE) has returned on a driver whose data lines hold the 165
\* of an earlier register write
C11_Witness ==
    /\ Returned
    /\ TopIs("set_mode")
    /\ TopArgs = <<WRITE>>
    /\ Len(PinWrites(trace)) = 2
    /\ bdir = High /\ bc1 = Low
    /\ BusValue = 165

(* C12: set_mode(READ) fails loudly: the call ends in a panic, and it      *)
(* never leaves the control lines at the READ levels, BDIR low and BC1     *)
(* high, that it wrote itself.                                             *)
C12_ReadModeRefused ==
    (TopIs("set_mode") /\ TopArgs = <<READ>>) =>
        /\ todo = <<>> => status = "panicked"
        /\ Len(PinWrites(trace)) = 2 => ~(bdir = Low /\ bc1 = High)

\* the call the caller made, running or over: the first event of the trace
\* or, before the call has been entered, the first instruction to be done
TopCall == IF trace # <<>> THEN trace[1] ELSE Head(todo)

\* the caller's call is one of the unsupported operations: read, note, or
\* the conversion of an EnvelopeShape::RawEnvelope to u8
InUnsupported ==
    /\ trace # <<>> \/ todo # <<>>
    /\ TopCall.k = "call"
    /\ \/ TopCall.f \in {"read", "note"}
       \/ TopCall.f = "u8_from_EnvelopeShape" /\ TopCall.args[1] = RawEnvelope

(* C13: read(register), note(channel, text) and the conversion of          *)
(* EnvelopeShape::RawEnvelope to u8 abort at call time: the call is        *)
(* entered and the next thing that happens is a panic; no step of it       *)
(* changes BDIR, BC1 or a data line, it makes no pin write and no other    *)
(* call, and it never returns.                                             *)
C13_UnsupportedAborts ==
    [][InUnsupported =>
         /\ bdir' = bdir /\ bc1' = bc1 /\ pins' = pins
         /\ PinWrites(trace') = <<>>
         /\ \A i \in 1..Len(trace') : trace'[i].k # "ret"
         /\ Len(trace') <= 2
         /\ Len(trace') = 2 => trace'[2].k = "panic" /\ status' = "panicked"
         /\ todo' = <<>> => status' = "panicked"]_vars

\* read(IoPortMixerSettings) has panicked with the lines at the WRITE levels
\* of an earlier set_mode
C13_Witness ==
    /\ status = "panicked"
    /\ TopIs("read")
    /\ TopArgs = <<IoPortMixerSettings>>
    /\ trace[Len(trace)].k = "panic"
    /\ bdir = High /\ bc1 = Low

(* C14: a pin write that fails during write_register is fatal: whichever   *)
(* of the pin writes fails, the failure is at once followed by a panic,    *)
(* which is the last thing that happens: no protocol step follows it and   *)
(* the write is not tried again.                                           *)
C14_PinFailureIsFatal ==
    \A i \in 1..Len(trace) :
        trace[i].k = "fail" =>
            /\ status = "panicked"
            /\ i + 1 = Len(trace)
            /\ trace[i + 1].k = "panic"

(* C15: write_u8(v) writes the data lines 0, 1, ..., 7 in this order, each *)
(* once and nothing else; each line written so far is high exactly if its  *)
(* bit of v is 1; and once the eight are written the byte the lines        *)
(* encode is v.                                                            *)
C15_WriteU8Lines ==
    TopIs("write_u8") =>
        LET v == TopArgs[1]
            w == PinWrites(trace)
        IN  /\ status = "ok"
            /\ Len(w) <= 8
            /\ \A i \in 1..Len(w) :
                 /\ w[i].f = "data"
                 /\ w[i].args[1] = i - 1
                 /\ pins[i - 1] = High <=> (v \div (2 ^ (i - 1))) % 2 = 1
            /\ Len(w) = 8 => BusValue = v
            /\ Returned => Len(w) = 8

\* write_u8(28) has returned on lines that were all high before
C15_Witness ==
    /\ Returned
    /\ TopIs("write_u8")
    /\ TopArgs = <<28>>
    /\ Len(PinWrites(trace)) = 8
    /\ pins = [i \in 0..7 |-> IF i \in {2, 3, 4} THEN High ELSE Low]

\* BDIR and BC1 are at the levels of mode m
DecodesAs(m) == <<bdir, bc1>> = <<STATES[m + 1][1], STATES[m + 1][3]>>

\* a write_u8 is partway: it has written line 0 and has not yet written line 7
WriteU8Partway ==
    /\ stack # <<>> /\ Head(stack).f = "write_u8"
    /\ todo # <<>> /\ Head(todo).k = "pin" /\ Head(todo).f = "data"
    /\ Head(todo).args[1] \in 1..7

IsWriteU8Call(e) == e.k = "call" /\ e.f = "write_u8"

(* C16, as the specification states it: in every state in which a          *)
(* write_u8 is partway through its eight pin writes the control lines      *)
(* decode neither ADDRESS nor WRITE.                                       *)
C16_NeverMidWriteClaim ==
    WriteU8Partway => ~DecodesAs(ADDRESS) /\ ~DecodesAs(WRITE)

(* C16, amended: write_register writes each byte while the control lines   *)
(* decode ADDRESS or WRITE, so the chip does see the lines change; what    *)
(* holds is that the control lines are stable during a write_u8 and that   *)
(* the byte is complete when the phase ends.  No step taken while a        *)
(* write_u8 is running changes BDIR or BC1; inside write_register every    *)
(* write_u8 runs with the lines decoding ADDRESS or WRITE; and whenever,   *)
(* after a write_u8 of the running operation, BDIR or BC1 changes away     *)
(* from the ADDRESS or WRITE levels, the data lines hold the whole byte    *)
(* that write_u8 was given.                                                *)
C16_StableWhenLatched ==
    /\ []((WriteU8Partway /\ Len(stack) > 1 /\ stack[2].f = "write_register")
            => DecodesAs(ADDRESS) \/ DecodesAs(WRITE))
    /\ [][/\ (stack # <<>> /\ Head(stack).f = "write_u8")
               => bdir' = bdir /\ bc1' = bc1
          /\ ( /\ bdir' # bdir \/ bc1' # bc1
               /\ DecodesAs(ADDRESS) \/ DecodesAs(WRITE)
               /\ SelectSeq(trace, IsWriteU8Call) # <<>> )
               => LET calls == SelectSeq(trace, IsWriteU8Call)
                  IN  BusValue = calls[Len(calls)].args[1]]_vars

\* the value byte 254 of a register write is half written, lines 0..3 done,
\* while the control lines decode WRITE
C16_Witness ==
    /\ WriteU8Partway
    /\ Head(stack).args = <<254>>
    /\ Head(todo).args[1] = 4
    /\ DecodesAs(WRITE)
    /\ TopIs("write_register")

\* a call of as_ep has ended, by a return or by a panic
AsEpDone == TopIs("as_ep") /\ todo = <<>>

\* the value a returned call handed back
Result == trace[Len(trace)].args[1]

(* C17: as_ep(clock) returns floor(clock / (256 * f)) for Hertz(f) with    *)
(* f > 0, 1 for Hertz(0) and x for Integer(x).                             *)
C17_AsEpValues ==
    AsEpDone =>
        LET f == TopArgs[2]
            clock == TopArgs[3]
        IN  /\ (TopArgs[1] = Hertz /\ f > 0) =>
                 status = "ok" /\ Result = clock \div (256 * f)
            /\ (TopArgs[1] = Hertz /\ f = 0) => status = "ok" /\ Result = 1
            /\ TopArgs[1] = Integer => status = "ok" /\ Result = f

(* C18: BeatsPerMinute(bpm).as_ep(clock) returns 60 times what             *)
(* Hertz(bpm).as_ep(clock) returns, for every clock and bpm.  The value    *)
(* Hertz(bpm).as_ep(clock) returns is the one the inner call, the third    *)
(* event of the run, handed back.                                          *)
C18_BpmIsSixtyTimesHertz ==
    (AsEpDone /\ TopArgs[1] = BeatsPerMinute) =>
        /\ status = "ok"
        /\ Result = 60 * trace[3].args[1]

\* the number the formula of an envelope frequency gives, 0 standing for
\* "no such number" when the division is by zero
Exact(variant, f, clock) ==
    CASE variant = Hertz -> IF f = 0 THEN 0 ELSE clock \div (256 * f)
      [] variant = BeatsPerMinute -> IF f = 0 THEN 0 ELSE 60 * (clock \div (256 * f))
      [] variant = Integer -> f

(* C19: overflow in as_ep is guarded: the call returns, and what it        *)
(* returns is the exact value of the formula when that value fits in 16    *)
(* bits and the fallback 1 otherwise.  A division by zero may give the     *)
(* fallback 1 or, for BeatsPerMinute, 60 times it.                         *)
C19_OverflowGuarded ==
    AsEpDone =>
        LET f == TopArgs[2]
            exact == Exact(TopArgs[1], f, TopArgs[3])
        IN  /\ status = "ok"
            /\ IF TopArgs[1] # Integer /\ f = 0
               THEN Result \in {1, 60}
               ELSE IF exact < U16_MODULUS
               THEN Result = exact
               ELSE Result = 1

(* C20: for Hertz(f) and BeatsPerMinute(f), whatever the clock, a call     *)
(* of as_ep that returns returns at least 1.                               *)
C20_MinimumDivider ==
    (AsEpDone /\ TopArgs[1] \in {Hertz, BeatsPerMinute} /\ status = "ok") =>
        Result >= 1

(* C21: with the master clock at 2,000,000 Hz the three alternatives of    *)
(* examples/doremi_pluck.rs, Integer(3906), BeatsPerMinute(120) and        *)
(* Hertz(2), give the same envelope period: as Integer(3906) gives 3906,   *)
(* each of the three calls returns 3906.                                   *)
C21_SameEnvelopePeriod ==
    ( /\ AsEpDone
      /\ TopArgs[3] = 2000000
      /\ <<TopArgs[1], TopArgs[2]>> \in {<<Integer, 3906>>, <<BeatsPerMinute, 120>>, <<Hertz, 2>>} )
    => status = "ok" /\ Result = 3906

\* bit n of the byte b
Bit(b, n) == (b \div (2 ^ n)) % 2

(* C22: the byte an EnvelopeShape converts to is: for Builtin(s) the       *)
(* datasheet code of s, FadeOut 0x09, FadeIn 0x0D, Tooth 0x0F, Saw 0x0C,   *)
(* Triangle 0x0E; for InvertedBuiltin(s) that code with bit 2 flipped and  *)
(* the seven other bits as they are; for CustomU8(n) the byte n.           *)
C22_ShapeByte ==
    /\ <<FadeOut, FadeIn, Tooth, Saw, Triangle>> = <<9, 13, 15, 12, 14>>
    /\ (TopIs("u8_from_EnvelopeShape") /\ TopArgs[1] # RawEnvelope /\ todo = <<>>) =>
         /\ status = "ok"
         /\ trace[Len(trace)].k = "ret"
         /\ TopArgs[1] \in {Builtin, CustomU8} => Result = TopArgs[2]
         /\ TopArgs[1] = InvertedBuiltin =>
              /\ Result \in 0..255
              /\ Bit(Result, 2) # Bit(TopArgs[2], 2)
              /\ \A n \in (0..7) \ {2} : Bit(Result, n) = Bit(TopArgs[2], n)
              /\ TopArgs[2] = 9 => Result = 13
              /\ TopArgs[2] = 13 => Result = 9
              /\ TopArgs[2] = 15 => Result = 11
              /\ TopArgs[2] = 12 => Result = 8
              /\ TopArgs[2] = 14 => Result = 10

\* the conversion of InvertedBuiltin(Saw) has returned 0x08
C22_Witness ==
    /\ Returned
    /\ TopIs("u8_from_EnvelopeShape")
    /\ TopArgs = <<InvertedBuiltin, Saw>>
    /\ trace[Len(trace)] = RetV("u8_from_EnvelopeShape", 8)

\* a call of as_hz has returned
AsHzDone == TopIs("as_hz") /\ Returned

(* C25: Note::new(A, 4, None).as_hz() is 440 exactly: the distance of the  *)
(* note from A4 is 0 and the call returns the reference pitch.             *)
C25_A4Is440 ==
    (AsHzDone /\ TopArgs = Note_new(BaseNote_A, 4, None)) =>
        /\ distance_a4(TopArgs) = 0
        /\ Result = 440

\* as_hz of A4 has returned 440
C25_Witness ==
    /\ AsHzDone
    /\ TopArgs = <<BaseNote_A, 4, None, 0>>
    /\ trace[Len(trace)] = RetV("as_hz", 440)

(* C26, as the specification states it: Note::new(C, 4, None).as_hz() is   *)
(* 261.                                                                    *)
C26_MiddleCIs261 ==
    (AsHzDone /\ TopArgs = Note_new(BaseNote_C, 4, None)) => Result = 261

(* C26, amended: Note::new(C, 4, None) is 9 semitones below A4 and its     *)
(* as_hz() is 262, the integer nearest to 440 * 2^(-9/12) = 261.63.        *)
C26_MiddleCIs262 ==
    (AsHzDone /\ TopArgs = Note_new(BaseNote_C, 4, None)) =>
        /\ distance_a4(TopArgs) = 2 * (-9)
        /\ Result = 262

\* as_hz of C4 has returned 262
C26_Witness ==
    /\ AsHzDone
    /\ TopArgs = <<BaseNote_C, 4, None, 0>>
    /\ trace[Len(trace)] = RetV("as_hz", 262)

\* the value as_hz returns for a note, with the rounding error in direction ulp
HzOf(n, ulp) == as_hz(n, ulp)[2].args[1]

(* C27: the distance as_hz uses is baseNoteOffset + accidentalOffset +     *)
(* (min(octave, 14) - 4) * 12 + transpose (here in halves of a semitone,   *)
(* an accidental counting its discriminant); a note with an octave above   *)
(* 14 has the distance and the as_hz of the same note with octave 14, and  *)
(* the accidental None those of Some(Natural).  What a call returned is    *)
(* compared with what the other note gives under each rounding error, as   *)
(* the error of the call is not part of what it returns.                   *)
C27_Distance ==
    AsHzDone =>
        LET n == TopArgs
            b == n[1]
            o == n[2]
            a == n[3]
            t == n[4]
            at14 == <<b, 14, a, t>>
            natural == <<b, o, Natural, t>>
        IN  /\ distance_a4(n) =
                 2 * b + (IF a = None THEN 0 ELSE a) + (Min(o, 14) - 4) * 24 + t
            /\ o > 14 =>
                 /\ distance_a4(n) = distance_a4(at14)
                 /\ \E u \in Ulps : Result = HzOf(at14, u)
                 /\ \A u \in Ulps : HzOf(n, u) = HzOf(at14, u)
            /\ a = None =>
                 /\ distance_a4(n) = distance_a4(natural)
                 /\ \E u \in Ulps : Result = HzOf(natural, u)
                 /\ \A u \in Ulps : HzOf(n, u) = HzOf(natural, u)

\* as_hz of B sharp in octave 255, transposed by 2.5 semitones, has returned
\* what the same note in octave 14 gives
C27_Witness ==
    /\ AsHzDone
    /\ TopArgs = <<BaseNote_B, 255, Sharp, 5>>
    /\ Result = HzOf(<<BaseNote_B, 14, Sharp, 5>>, 0)
    /\ Result > 600000

(* C28: the variants of Register are, in this order, the addresses 0..15:  *)
(* AFreq8bitFinetone 0, AFreq4bitRoughtone 1, BFreq8bitFinetone 2,         *)
(* BFreq4bitRoughtone 3, CFreq8bitFinetone 4, CFreq4bitRoughtone 5,        *)
(* NoiseFreq5bit 6, IoPortMixerSettings 7, ALevel 8, BLevel 9, CLevel 10,  *)
(* EFreq8bitFineAdj 11, EFreq8bitRoughAdj 12, EShape 13, DataIoA 14,       *)
(* DataIoB 15; and write_register(Register::X, v) sends exactly that       *)
(* address: the byte given to the write_u8 of its address phase, and the   *)
(* byte on the data lines when that phase ends, is the variant's number.   *)
C28_RegisterMap ==
    /\ RegisterVariants = <<0, 1, 2, 3, 4, 5, 6, 7, 8, 9, 10, 11, 12, 13, 14, 15>>
    /\ (TopIs("write_register") /\ \E i \in 1..16 : TopArgs[1] = RegisterVariants[i]) =>
         LET calls == SelectSeq(trace, IsWriteU8Call)
         IN  /\ status = "ok"
             /\ calls # <<>> => calls[1].args = <<TopArgs[1]>>
             /\ (Len(Steps(trace)) = 2 /\ stack # <<>> /\ Head(stack).f = "write_register")
                  => BusValue = TopArgs[1]
             /\ Returned => Len(calls) = 2

\* write_register(Register::DataIoB, 1) is at the end of its address phase
C28_Witness ==
    /\ TopIs("write_register")
    /\ TopArgs = <<DataIoB, 1>>
    /\ Len(Steps(trace)) = 2
    /\ stack # <<>> /\ Head(stack).f = "write_register"
    /\ BusValue = 15

\* the operations that write registers
DriverOps == {"write_register", "tone", "tone_hz", "volume", "set_noise_freq"}

(* C29: whenever write_register, tone, tone_hz, volume or set_noise_freq   *)
(* has just returned, whatever the control lines were before it and        *)
(* whatever was called before it, BDIR and BC1 are low (INACTIVE) and the  *)
(* data lines hold the value byte of the last register write.              *)
C29_InactiveAfterReturn ==
    (trace # <<>> /\ trace[Len(trace)].k = "ret" /\ trace[Len(trace)].f \in DriverOps) =>
        LET writes == RegisterCalls(trace)
        IN  /\ bdir = Low /\ bc1 = Low
            /\ writes # <<>>
            /\ BusValue = writes[Len(writes)].args[2]

\* tone_hz(B, 440) has returned with the clock at 2 MHz: the period is 284
\* and the last byte written is its high byte
C29_Witness ==
    /\ Returned
    /\ TopIs("tone_hz")
    /\ TopArgs = <<AudioChannel_B, 440>>
    /\ master_clock_frequency = 2000000
    /\ bdir = Low /\ bc1 = Low
    /\ BusValue = 1

\* the modes the set_mode calls of the running operation asked for, in order
RequestedModes ==
    LET calls == SelectSeq(trace, IsSetModeCall)
    IN  [i \in 1..Len(calls) |-> calls[i].args[1]]

IsActiveMode(m) == m \in {ADDRESS, WRITE}

(* C30: the modes an operation of the driver requests never go from        *)
(* ADDRESS to WRITE or from WRITE to ADDRESS directly: the request after   *)
(* an ADDRESS or a WRITE is INACTIVE; ADDRESS and WRITE alternate, ADDRESS *)
(* first; READ is never requested; and when the operation returns the      *)
(* last request was INACTIVE and every ADDRESS has had its WRITE, so that  *)
(* the same holds of any sequence of operations.  This covers the two      *)
(* register writes of tone and the four of examples/all.rs.  The modes a   *)
(* caller requests itself with set_mode are the caller's.                  *)
C30_ModeAlternation ==
    (\E op \in DriverOps \cup {"main_all"} : TopIs(op)) =>
        LET modes == RequestedModes
            active == SelectSeq(modes, IsActiveMode)
        IN  /\ \A i \in 1..Len(modes) : modes[i] # READ
            /\ \A i \in 1..(Len(modes) - 1) :
                 IsActiveMode(modes[i]) => modes[i + 1] = INACTIVE
            /\ \A j \in 1..Len(active) :
                 active[j] = IF j % 2 = 1 THEN ADDRESS ELSE WRITE
            /\ (trace[Len(trace)].k = "ret" /\ trace[Len(trace)].f \in DriverOps) =>
                 /\ modes[Len(modes)] = INACTIVE
                 /\ Len(active) % 2 = 0

\* tone(A, 256) has requested ADDRESS for its second register write, after
\* the INACTIVE that closed the first
C30_Witness ==
    /\ TopIs("tone")
    /\ TopArgs = <<AudioChannel_A, 256>>
    /\ Len(RegisterCalls(trace)) = 2
    /\ Len(RequestedModes) = 5
    /\ RequestedModes[4] = INACTIVE
    /\ RequestedModes[5] = ADDRESS

\* where the trace of set_envelope_frequency holds the return of its as_ep:
\* the call of as_ep is the second event and, since as_ep may call itself
\* once, its return is the third event or the fifth
ResolvedAt ==
    IF trace[3].k = "ret" THEN 3 ELSE 5

(* C23: set_envelope_frequency(ef) makes exactly two register writes,      *)
(* (11, low byte of ef.as_ep(clock)) and then (12, its high byte), and     *)
(* set_envelope_shape(shape), for a shape that has a code, makes exactly   *)
(* one, (13, the code of the shape).                                       *)
C23_EnvelopeWrites ==
    /\ (TopIs("set_envelope_frequency") /\ todo = <<>>) =>
         /\ status = "ok"
         /\ LET ep == trace[ResolvedAt].args[1]
            IN  /\ RegisterCalls(trace) =
                     << CallI("write_register", <<11, ep % 256>>),
                        CallI("write_register", <<12, ep \div 256>>) >>
                /\ Steps(trace) = Handshake(11, ep % 256) \o Handshake(12, ep \div 256)
    /\ (TopIs("set_envelope_shape") /\ TopArgs[1] # RawEnvelope /\ todo = <<>>) =>
         /\ status = "ok"
         /\ RegisterCalls(trace) = << CallI("write_register", <<13, trace[3].args[1]>>) >>
         /\ Steps(trace) = Handshake(13, trace[3].args[1])

InSetModeWrite ==
    /\ stack # <<>> /\ Head(stack).f = "set_mode"
    /\ todo # <<>> /\ Head(todo).k = "pin"

(* C31: in every state reached by write_register, tone, tone_hz, volume    *)
(* and set_noise_freq calls from INACTIVE control lines, taken after each  *)
(* single pin write, BDIR and BC1 are never at the READ levels (BDIR low,  *)
(* BC1 high); and after each pin write of a set_mode(m) the lines are      *)
(* either as they were, at the levels of the mode being left, or at the    *)
(* levels of m.                                                            *)
C31_NoTransientMode ==
    /\ [](~DecodesAs(READ))
    /\ [][InSetModeWrite =>
            LET m == Head(stack).args[1]
            IN  \/ <<bdir', bc1'>> = <<bdir, bc1>>
                \/ <<bdir', bc1'>> = <<STATES[m + 1][1], STATES[m + 1][3]>>]_vars

(* C32: with a chip on the bus that fetches the low four bits of the bus   *)
(* as the register address whenever the lines decode ADDRESS and stores    *)
(* the bus in the addressed register whenever they decode WRITE, a call    *)
(* write_register(a, v) started with the lines INACTIVE, after any         *)
(* sequence of register writes, has returned with register min(a, 15)      *)
(* holding v and every other register holding what it held when the call   *)
(* was made.                                                               *)
C32_OnlyTheAddressedRegister ==
    (Returned /\ TopIs("write_register")) =>
        LET r == Min(TopArgs[1], 15)
        IN  /\ chip.registers[r] = TopArgs[2]
            /\ \A q \in (0..15) \ {r} : chip.registers[q] = chip.before[q]

\* the bytes the running operation has written while entering the address
\* phase: the argument of each write_u8 that follows a set_mode(ADDRESS)
AddressBytes ==
    LET steps == Steps(trace)
        after == {j \in 2..Len(steps) : steps[j - 1] = CallI("set_mode", <<ADDRESS>>)}
    IN  {steps[j].args[1] : j \in after}

\* the register arguments of the write_register calls of the running operation
AddressesAsked == {RegisterCalls(trace)[j].args[1] : j \in 1..Len(RegisterCalls(trace))}

(* C33: every register address a channel-level operation issues, as the    *)
(* argument of write_register and as the byte put on the bus in the        *)
(* address phase, is in 0..15 and in the operation's own range: tone and   *)
(* tone_hz on channel X address only 2X and 2X+1 (within 0..5),            *)
(* set_noise_freq only 6, volume on channel X only 8+X (within 8..10).     *)
(* The channel can be told from the address (address div 2 for a tone,     *)
(* address - 8 for a level), so two channels never share a register, and   *)
(* register 7 and registers 11..15 are never addressed.                    *)
C33_RegisterRanges ==
    LET issued == AddressesAsked \cup AddressBytes
        X == TopArgs[1]
    IN  /\ (TopIs("tone") \/ TopIs("tone_hz")) =>
              /\ issued \subseteq {2 * X, 2 * X + 1}
              /\ issued \subseteq 0..5
              /\ \A a \in issued : a \div 2 = X
        /\ TopIs("set_noise_freq") => issued \subseteq {NoiseFreq5bit}
        /\ TopIs("volume") =>
              /\ issued \subseteq {8 + X}
              /\ issued \subseteq 8..10
              /\ \A a \in issued : a - 8 = X
        /\ (\E f \in {"tone", "tone_hz", "set_noise_freq", "volume"} : TopIs(f)) =>
              /\ issued \subseteq 0..15
              /\ issued \cap ({IoPortMixerSettings} \cup 11..15) = {}

\* tone_hz(C, 440) has returned after addressing registers 4 and 5, both
\* as the argument of write_register and on the bus
C33_Witness ==
    /\ Returned
    /\ TopIs("tone_hz")
    /\ TopArgs = <<AudioChannel_C, 440>>
    /\ AddressesAsked = {CFreq8bitFinetone, CFreq4bitRoughtone}
    /\ AddressBytes = {CFreq8bitFinetone, CFreq4bitRoughtone}

\* a call of transpose has returned
TransposeDone == TopIs("transpose") /\ Returned

\* the note transpose was called on, and the semitones it was given
TransposeSelf == SubSeq(TopArgs, 1, 4)
TransposeBy == TopArgs[5]

(* C34, as the specification states it: for every note n, new or already   *)
(* transposed by a, n.transpose(b) has the distance of the untransposed    *)
(* note plus b (so n.transpose(a).transpose(b) has the distance of         *)
(* n.transpose(b)), n.transpose(0) has the distance of n, and the note     *)
(* handed in is not altered: what is returned differs from it in the       *)
(* offset alone.                                                           *)
C34_TransposeClaim ==
    TransposeDone =>
        LET n == TransposeSelf
            new == <<n[1], n[2], n[3], 0>>
        IN  /\ distance_a4(Result) = distance_a4(new) + TransposeBy
            /\ <<Result[1], Result[2], Result[3]>> = <<n[1], n[2], n[3]>>
            /\ TransposeBy = 0 => distance_a4(Result) = distance_a4(n)

(* C34, amended: transpose replaces the offset.  For every note n, new or  *)
(* already transposed by a, n.transpose(b) has the distance of the         *)
(* untransposed note plus b, so n.transpose(a).transpose(b) has the        *)
(* distance of n.transpose(b); n.transpose(0) has the distance of the      *)
(* untransposed note, which is the distance of n exactly when the offset   *)
(* of n is 0; base note, octave and accidental are those of n.             *)
C34_TransposeReplaces ==
    TransposeDone =>
        LET n == TransposeSelf
            new == <<n[1], n[2], n[3], 0>>
        IN  /\ distance_a4(Result) = distance_a4(new) + TransposeBy
            /\ <<Result[1], Result[2], Result[3]>> = <<n[1], n[2], n[3]>>
            /\ Result[4] = TransposeBy
            /\ TransposeBy = 0 =>
                 /\ distance_a4(Result) = distance_a4(n) - n[4]
                 /\ distance_a4(Result) = distance_a4(n) <=> n[4] = 0

\* C sharp in octave 4, already transposed by 2.5 semitones, has been
\* transposed by 0: the result is 8 semitones below A4, the note it was
\* called on 5.5 semitones below
C34_Witness ==
    /\ TransposeDone
    /\ TopArgs = <<BaseNote_C, 4, Sharp, 5, 0>>
    /\ Result = <<BaseNote_C, 4, Sharp, 0>>
    /\ distance_a4(Result) = -16
    /\ distance_a4(TransposeSelf) = -11

Abs(x) == IF x < 0 THEN -x ELSE x

\* i and direction are in range, and no step moves i by more than one
LoopLocalsInRange ==
    /\ locals.i \in 0..7
    /\ locals.direction \in {-1, 0, 1}

\* the order of the notes played so far, as far as played keeps it: two
\* notes in a row are the same or neighbours; a note inside the scale is
\* followed by the next one in the direction of travel; an end that has
\* just been reached is played again, and after its second time the scale
\* is left in the other direction
PingPongOrder ==
    LET n == Len(played)
    IN  /\ \A j \in 1..(n - 1) : Abs(played[j + 1] - played[j]) <= 1
        /\ n >= 3 =>
             LET a == played[n - 2]
                 b == played[n - 1]
                 c == played[n]
             IN  /\ (a < b /\ b < 7) => c = b + 1
                 /\ (a > b /\ b > 0) => c = b - 1
                 /\ (a # b /\ b \in {0, 7}) => c = b
                 /\ a = b => (b \in {0, 7} /\ c = IF b = 0 THEN 1 ELSE 6)

(* C35, as the specification states it: in the do-re-mi loop i stays in    *)
(* 0..7 and direction in {-1, 0, 1}, i moves by at most one per iteration, *)
(* the scale is played in ping-pong order with the first and the last note *)
(* played twice in a row whenever an end is reached, and the program       *)
(* starts in the same way: its first two notes are both the first note.    *)
C35_PingPongFromStartClaim ==
    /\ [](LoopLocalsInRange /\ PingPongOrder)
    /\ [](Len(played) = 2 => played = <<0, 0>>)
    /\ [][Abs(locals.i' - locals.i) <= 1]_vars

(* C35, amended: in the do-re-mi loop i stays in 0..7 and direction in     *)
(* {-1, 0, 1}, i moves by at most one per iteration, the scale is played   *)
(* in ping-pong order with the first and the last note played twice in a   *)
(* row whenever an end is reached by moving to it; the program starts on   *)
(* the first note with direction 0 and plays it once, its first two notes  *)
(* being the indices 0 and 1.                                              *)
C35_PingPong ==
    /\ [](LoopLocalsInRange /\ PingPongOrder)
    /\ [](Len(played) = 2 => played = <<0, 1>>)
    /\ [](Len(played) = 1 => played = <<0>> /\ locals.direction \in {0, 1})
    /\ [][Abs(locals.i' - locals.i) <= 1]_vars

\* the last note has been played twice in a row and then the one below it:
\* the loop is on its way down
C35_Witness ==
    /\ Len(played) >= 3
    /\ SubSeq(played, Len(played) - 2, Len(played)) = <<7, 7, 6>>
    /\ locals = [i |-> 6, direction |-> -1]

\* the first note has been reached from above and played twice in a row
C35_WitnessFirst ==
    /\ Len(played) >= 3
    /\ SubSeq(played, Len(played) - 2, Len(played)) = <<1, 0, 0>>

====
